---- MODULE Spec2Model ----
(***************************************************************************)
(* Address cache of the utreexo electrum server: the in-memory indices     *)
(* (address_map, script_set, tx_index), the write-through key/value store  *)
(* and the text codec of the persisted records                             *)
(* (src/address_cache/mod.rs, src/address_cache/kv_database.rs).           *)
(***************************************************************************)
EXTENDS Integers, Sequences, FiniteSets, TLC

\* ------------------------------------------------------------------ bounds
\* Total number of cached transaction records over all addresses.
MaxHist == 2

\* ------------------------------------------------------------------ numbers
\* A u32 is kept at its width as two 16-bit limbs <<high, low>>, value
\* high * 65536 + low, so that u32::MAX and the overflow of `height + 1`
\* (mod.rs:350) are representable.
U32(n) == <<0, n>>
U32Max == <<65535, 65535>>
IsU32(x) == Len(x) = 2 /\ x[1] \in 0..65535 /\ x[2] \in 0..65535

\* x <= y on u32.
u32_le(x, y) == x[1] < y[1] \/ (x[1] = y[1] /\ x[2] <= y[2])

\* x + 1 on u32, wrapping modulo 2^32 (what a release build computes).
wrapping_add1(x) ==
    IF x[2] < 65535 THEN <<x[1], x[2] + 1>>
    ELSE IF x[1] < 65535 THEN <<x[1] + 1, 0>>
    ELSE <<0, 0>>

\* ---------------------------------------------------------------- universe
\* Output scripts (raw bytes, abstracted to small integers).
Scripts == {1, 2}

\* get_spk_hash: single SHA-256 of the script, byte reversed.  Pure and
\* injective on the scripts of the model; deliberately not the identity.
get_spk_hash(script) == 40 + script

Hashes == {get_spk_hash(s) : s \in Scripts}

\* bitcoin::Transaction, reduced to a version and its output scripts.
T1 == [version |-> 1, output |-> <<1, 1>>]
T2 == [version |-> 2, output |-> <<1, 2>>]
Transactions == {T1, T2}

\* consensus serialisation of a transaction and its inverse.
serialize_tx(tx) == <<tx.version>> \o tx.output

deserialize_tx(bytes) ==
    IF Len(bytes) < 2
    THEN [ok |-> FALSE]
    ELSE [ok |-> TRUE, val |-> [version |-> Head(bytes), output |-> Tail(bytes)]]

RECURSIVE Digest(_)
Digest(bytes) == IF bytes = <<>> THEN 0 ELSE Head(bytes) + 10 * Digest(Tail(bytes))

\* Transaction::txid: a digest of the serialisation.
txid(tx) == 100 + Digest(serialize_tx(tx))

\* bitcoin::Block: a header (identified by a number) and its transactions.
Blocks ==
    { [header |-> 1, txdata |-> <<T1>>],
      [header |-> 2, txdata |-> <<T2, T1>>] }

\* Heights handed to block_process / cache_transaction.
Heights == {U32(1), U32(2)}

\* Heights handed to bump_height (any u32).
BumpHeights == {U32(1), U32Max}

\* Chain tips handed to get_sync_limits.
Tips == {U32(0), U32(1), U32(2)}

Descriptors == {7}

None == <<>>
Some(x) == <<x>>

\* MerkleBlock::from_block_with_predicate(block, |t| *t == my_txid): the
\* header, the number of transactions, the match bits and the hashes of the
\* partial merkle tree.  For a block of at most two transactions the partial
\* tree of one matched leaf holds every leaf hash.
from_block_with_predicate(block, my_txid) ==
    [header |-> block.header,
     ntx    |-> Len(block.txdata),
     bits   |-> [i \in 1..Len(block.txdata) |-> IF txid(block.txdata[i]) = my_txid THEN 1 ELSE 0],
     hashes |-> [i \in 1..Len(block.txdata) |-> txid(block.txdata[i])]]

serialize_mb(mb) == <<mb.header, mb.ntx>> \o mb.bits \o mb.hashes

deserialize_mb(bytes) ==
    IF Len(bytes) < 2 \/ Len(bytes) # 2 + 2 * bytes[2]
    THEN [ok |-> FALSE]
    ELSE LET n == bytes[2] IN
         [ok |-> TRUE,
          val |-> [header |-> bytes[1], ntx |-> n,
                   bits   |-> SubSeq(bytes, 3, 2 + n),
                   hashes |-> SubSeq(bytes, 3 + n, 2 + 2 * n)]]

\* ------------------------------------------------------------------- text
\* A String is a sequence of tokens: a delimiter, a run of hex digits
\* carrying the bytes it spells, a decimal number, or a literal key.
Tok(k, v) == [k |-> k, v |-> v]
Colon == Tok(":", <<>>)
Semi  == Tok(";", <<>>)
Space == Tok(" ", <<>>)
HexStr(bytes) == IF bytes = <<>> THEN <<>> ELSE <<Tok("hex", bytes)>>
DecStr(n)     == <<Tok("dec", n)>>
Lit(name)     == <<Tok(name, <<>>)>>

\* str::split(delim): the segments between the delimiters (always at least one).
RECURSIVE Split(_, _)
Split(text, delim) ==
    IF text = <<>> THEN << <<>> >>
    ELSE LET rest == Split(Tail(text), delim) IN
         IF Head(text) = delim
         THEN << <<>> >> \o rest
         ELSE << <<Head(text)>> \o Head(rest) >> \o Tail(rest)

\* Vec::from_hex / Script::from_hex: the bytes a hex string spells.
from_hex(seg) ==
    IF seg = <<>> THEN [ok |-> TRUE, val |-> <<>>]
    ELSE IF Len(seg) = 1 /\ seg[1].k = "hex" THEN [ok |-> TRUE, val |-> seg[1].v]
    ELSE [ok |-> FALSE]

\* str::parse::<u32> (and parse::<u64>, whose values in this model all fit
\* a u32): the number a decimal string spells.
parse_int(seg) ==
    IF Len(seg) = 1 /\ seg[1].k = "dec" /\ IsU32(seg[1].v)
    THEN [ok |-> TRUE, val |-> seg[1].v]
    ELSE [ok |-> FALSE]

\* sha256::Hash::from_hex: exactly one 32-byte value.
hash_from_hex(seg) ==
    IF Len(seg) = 1 /\ seg[1].k = "hex" /\ Len(seg[1].v) = 1
    THEN [ok |-> TRUE, val |-> seg[1].v[1]]
    ELSE [ok |-> FALSE]

\* impl Display for CachedTransaction: "tx_hex;height;position;merkle_block".
DisplayTx(t) ==
    HexStr(t.tx_hex) \o <<Semi>> \o DecStr(t.height) \o <<Semi>>
        \o DecStr(t.position) \o <<Semi>>
        \o (IF t.merkle_block = None THEN <<>> ELSE HexStr(serialize_mb(t.merkle_block[1])))

\* impl TryFrom<String> for CachedTransaction.
TryFromTx(value) ==
    LET parts == Split(value, Semi) IN
    IF Len(parts) < 4 THEN [ok |-> FALSE]
    ELSE LET mbHex == from_hex(parts[4])
             mb    == IF mbHex.ok THEN deserialize_mb(mbHex.val) ELSE [ok |-> FALSE]
             txHex == from_hex(parts[1])
             tx    == IF txHex.ok THEN deserialize_tx(txHex.val) ELSE [ok |-> FALSE]
             h     == parse_int(parts[2])
             p     == parse_int(parts[3])
         IN IF mb.ok /\ tx.ok /\ h.ok /\ p.ok
            THEN [ok |-> TRUE,
                  val |-> [tx_hex |-> txHex.val, height |-> h.val,
                           merkle_block |-> Some(mb.val),
                           hash |-> txid(tx.val), position |-> p.val]]
            ELSE [ok |-> FALSE]

\* The loop of TryFrom<String> for CachedAddress over the transaction segments.
RECURSIVE ParseTxs(_)
ParseTxs(segs) ==
    IF segs = <<>> THEN [ok |-> TRUE, val |-> <<>>]
    ELSE IF Head(segs) = <<>> THEN ParseTxs(Tail(segs))
    ELSE LET t == TryFromTx(Head(segs))
             r == ParseTxs(Tail(segs))
         IN IF t.ok /\ r.ok THEN [ok |-> TRUE, val |-> <<t.val>> \o r.val]
            ELSE [ok |-> FALSE]

\* impl TryFrom<String> for CachedAddress.
TryFromAddress(value) ==
    LET parts == Split(value, Colon) IN
    IF Len(parts) < 3 THEN [ok |-> FALSE]
    ELSE LET sh  == hash_from_hex(parts[1])
             bal == parse_int(parts[2])
             sc  == from_hex(parts[3])
             txs == ParseTxs(SubSeq(parts, 4, Len(parts)))
         IN IF sh.ok /\ bal.ok /\ sc.ok /\ txs.ok /\ Len(sc.val) = 1
            THEN [ok |-> TRUE,
                  val |-> [script_hash |-> sh.val, balance |-> bal.val,
                           transactions |-> txs.val, script |-> sc.val[1]]]
            ELSE [ok |-> FALSE]

\* ------------------------------------------------------------ kv_database
HeightKey == Lit("height")
DescKey   == Lit("desc")

\* address.script_hash.to_string(): the key of an address record.
AddressKey(script_hash) == HexStr(<<script_hash>>)

\* Bucket::set: upsert of one key.
BucketSet(db, key, value) ==
    [k \in DOMAIN db \cup {key} |-> IF k = key THEN value ELSE db[k]]

RECURSIVE ConcatTxs(_)
ConcatTxs(transactions) ==
    IF transactions = <<>> THEN <<>>
    ELSE DisplayTx(Head(transactions)) \o <<Colon>> \o ConcatTxs(Tail(transactions))

\* The value KvDatabase::save formats: "hash:balance:script:" then "tx:" per
\* transaction.
AddressValue(address) ==
    HexStr(<<address.script_hash>>) \o <<Colon>> \o DecStr(address.balance) \o <<Colon>>
        \o HexStr(<<address.script>>) \o <<Colon>> \o ConcatTxs(address.transactions)

\* KvDatabase::save (and update, which calls it): full overwrite of the record.
save(db, address) == BucketSet(db, AddressKey(address.script_hash), AddressValue(address))

update(db, address) == save(db, address)

\* Bucket::iter: the items in key order, as a sequence of keys.
RECURSIVE KeysInOrder(_)
KeysInOrder(keys) ==
    IF keys = {} THEN <<>>
    ELSE LET least == CHOOSE k \in keys : \A o \in keys : k[1].v[1] <= o[1].v[1]
         IN <<least>> \o KeysInOrder(keys \ {least})

RECURSIVE LoadItems(_, _)
LoadItems(db, keys) ==
    IF keys = <<>> THEN [ok |-> TRUE, val |-> <<>>]
    ELSE LET a == TryFromAddress(db[Head(keys)])
             r == LoadItems(db, Tail(keys))
         IN IF a.ok /\ r.ok THEN [ok |-> TRUE, val |-> <<a.val>> \o r.val]
            ELSE [ok |-> FALSE]

\* KvDatabase::load: every item but "height" and "desc", decoded.
load(db) == LoadItems(db, KeysInOrder(DOMAIN db \ {HeightKey, DescKey}))

\* KvDatabase::get_cache_height.
get_cache_height(db) ==
    IF HeightKey \in DOMAIN db
    THEN LET h == parse_int(db[HeightKey]) IN
         IF h.ok THEN h ELSE [ok |-> FALSE, err |-> "ParseIntError"]
    ELSE [ok |-> FALSE, err |-> "WalletNotInitialized"]

\* KvDatabase::set_cache_height.
set_cache_height(db, height) == BucketSet(db, HeightKey, DecStr(height))

\* KvDatabase::desc_save.
desc_save(db, descriptor) == BucketSet(db, DescKey, <<Tok("str", <<descriptor>>)>>)

\* ----------------------------------------------------------- AddressCache
VARIABLES address_map, script_set, tx_index, acc, database, chain_store, alive, call, writer

vars == <<address_map, script_set, tx_index, acc, database, chain_store, alive, call, writer>>

\* The fields of the engine the address operations read and write.
Self == [address_map |-> address_map, script_set |-> script_set,
         tx_index |-> tx_index, database |-> database]

MapInsert(map, key, value) ==
    [k \in DOMAIN map \cup {key} |-> IF k = key THEN value ELSE map[k]]

EmptyMap == [k \in {} |-> 0]

\* Vec::contains.
Contains(seq, x) == \E i \in 1..Len(seq) : seq[i] = x

\* cache_address that forgets to add the script to script_set.
cache_address_unwatched(self, script_pk) ==
    LET hash == get_spk_hash(script_pk)
        new_address == [balance |-> U32(0), script_hash |-> hash,
                        transactions |-> <<>>, script |-> script_pk]
    IN [self EXCEPT !.database = save(self.database, new_address),
                    !.address_map = MapInsert(self.address_map, hash, new_address)]

\* AddressCache::cache_address.
cache_address(self, script_pk) ==
    LET hash == get_spk_hash(script_pk)
        new_address == [balance |-> U32(0), script_hash |-> hash,
                        transactions |-> <<>>, script |-> script_pk]
    IN [self EXCEPT !.database = save(self.database, new_address),
                    !.address_map = MapInsert(self.address_map, hash, new_address),
                    !.script_set = self.script_set \cup {script_pk}]

\* The CachedTransaction cache_transaction builds from its arguments.
CachedTx(transaction, height, merkle_block, position) ==
    [height |-> height, merkle_block |-> Some(merkle_block),
     tx_hex |-> serialize_tx(transaction), hash |-> txid(transaction),
     position |-> position]

\* push_known that forgets to write the record through to the store.
push_known_unsaved(self, hash, transaction_to_cache) ==
    LET address == self.address_map[hash]
        updated == [address EXCEPT !.transactions = Append(@, transaction_to_cache)]
    IN [self EXCEPT
          !.tx_index = MapInsert(self.tx_index, transaction_to_cache.hash,
                                 <<address.script_hash, Len(address.transactions)>>),
          !.address_map = MapInsert(self.address_map, hash, updated)]

\* cache_transaction on an address of address_map that lacks the record:
\* tx_index entry, push, update of the store.
push_known(self, hash, transaction_to_cache) ==
    LET address == self.address_map[hash]
        updated == [address EXCEPT !.transactions = Append(@, transaction_to_cache)]
    IN [self EXCEPT
          !.tx_index = MapInsert(self.tx_index, transaction_to_cache.hash,
                                 <<address.script_hash, Len(address.transactions)>>),
          !.address_map = MapInsert(self.address_map, hash, updated),
          !.database = update(self.database, updated)]

\* track_new that forgets to add the script to script_set.
track_new_unwatched(self, hash, transaction_to_cache, out) ==
    LET new_address == [balance |-> U32(0), script_hash |-> hash,
                        transactions |-> <<transaction_to_cache>>, script |-> out]
    IN [self EXCEPT
          !.database = save(self.database, new_address),
          !.address_map = MapInsert(self.address_map, hash, new_address)]

\* cache_transaction on a script hash that is not in address_map: the
\* address is followed from now on.
track_new(self, hash, transaction_to_cache, out) ==
    LET new_address == [balance |-> U32(0), script_hash |-> hash,
                        transactions |-> <<transaction_to_cache>>, script |-> out]
    IN [self EXCEPT
          !.database = save(self.database, new_address),
          !.address_map = MapInsert(self.address_map, hash, new_address),
          !.script_set = self.script_set \cup {out}]

\* cache_transaction without the `contains` test.
cache_transaction_always_push(self, transaction, height, out, merkle_block, position) ==
    LET transaction_to_cache == CachedTx(transaction, height, merkle_block, position)
        hash == get_spk_hash(out)
    IN IF hash \in DOMAIN self.address_map
       THEN push_known(self, hash, transaction_to_cache)
       ELSE track_new(self, hash, transaction_to_cache, out)

\* AddressCache::cache_transaction.
cache_transaction(self, transaction, height, out, merkle_block, position) ==
    LET transaction_to_cache == CachedTx(transaction, height, merkle_block, position)
        hash == get_spk_hash(out)
    IN IF hash \in DOMAIN self.address_map
       THEN IF Contains(self.address_map[hash].transactions, transaction_to_cache)
            THEN self
            ELSE push_known(self, hash, transaction_to_cache)
       ELSE track_new(self, hash, transaction_to_cache, out)

\* The loops of AddressCache::block_process: st carries the engine and
\* my_transactions; position and k are the zero-based indices of the
\* transaction in the block and of the output in the transaction.
\* ScanOutputs that reports a match only when caching changed the engine.
RECURSIVE ScanOutputsNewOnly(_, _, _, _, _)
ScanOutputsNewOnly(st, block, height, position, k) ==
    LET transaction == block.txdata[position + 1] IN
    IF k >= Len(transaction.output) THEN st
    ELSE LET output == transaction.output[k + 1] IN
         IF output \in st.self.script_set
         THEN LET my_txid == txid(transaction)
                  merkle_block == from_block_with_predicate(block, my_txid)
                  cached == cache_transaction(st.self, transaction, height, output,
                                              merkle_block, U32(position))
              IN ScanOutputsNewOnly(
                    [self |-> cached,
                     my_transactions |->
                        IF cached = st.self THEN st.my_transactions
                        ELSE Append(st.my_transactions, <<transaction, output>>)],
                    block, height, position, k + 1)
         ELSE ScanOutputsNewOnly(st, block, height, position, k + 1)

RECURSIVE ScanOutputs(_, _, _, _, _)
ScanOutputs(st, block, height, position, k) ==
    LET transaction == block.txdata[position + 1] IN
    IF k >= Len(transaction.output) THEN st
    ELSE LET output == transaction.output[k + 1] IN
         IF output \in st.self.script_set
         THEN LET my_txid == txid(transaction)
                  merkle_block == from_block_with_predicate(block, my_txid)
              IN ScanOutputs(
                    [self |-> cache_transaction(st.self, transaction, height, output,
                                                merkle_block, U32(position)),
                     my_transactions |-> Append(st.my_transactions, <<transaction, output>>)],
                    block, height, position, k + 1)
         ELSE ScanOutputs(st, block, height, position, k + 1)

RECURSIVE ScanTxs(_, _, _, _)
ScanTxs(st, block, height, position) ==
    IF position >= Len(block.txdata) THEN st
    ELSE ScanTxs(ScanOutputs(st, block, height, position, 0), block, height, position + 1)

\* AddressCache::block_process after the accumulator update.
block_process(self, block, height) ==
    ScanTxs([self |-> self, my_transactions |-> <<>>], block, height, 0)

\* The loop of AddressCache::new over the loaded addresses.
RECURSIVE IndexTxs(_, _, _)
IndexTxs(index, address, pos) ==
    IF pos >= Len(address.transactions) THEN index
    ELSE IndexTxs(MapInsert(index, address.transactions[pos + 1].hash,
                            <<address.script_hash, pos>>),
                  address, pos + 1)

\* BuildIndices that keeps only the first transaction of each address.
RECURSIVE BuildIndicesFirstOnly(_, _)
BuildIndicesFirstOnly(self, scripts) ==
    IF scripts = <<>> THEN self
    ELSE LET address == Head(scripts)
             cut == [address EXCEPT !.transactions = IF Len(@) > 1 THEN <<Head(@)>> ELSE @]
         IN BuildIndicesFirstOnly(
               [self EXCEPT
                  !.tx_index = IndexTxs(self.tx_index, cut, 0),
                  !.script_set = self.script_set \cup {address.script},
                  !.address_map = MapInsert(self.address_map, address.script_hash, cut)],
               Tail(scripts))

RECURSIVE BuildIndices(_, _)
BuildIndices(self, scripts) ==
    IF scripts = <<>> THEN self
    ELSE LET address == Head(scripts) IN
         BuildIndices(
            [self EXCEPT
               !.tx_index = IndexTxs(self.tx_index, address, 0),
               !.script_set = self.script_set \cup {address.script},
               !.address_map = MapInsert(self.address_map, address.script_hash, address)],
            Tail(scripts))

\* AddressCache::new: the indices rebuilt from the store.
new(db) ==
    LET scripts == load(db) IN
    IF scripts.ok
    THEN [ok |-> TRUE,
          val |-> BuildIndices([address_map |-> EmptyMap, script_set |-> {},
                                tx_index |-> EmptyMap, database |-> db], scripts.val)]
    ELSE [ok |-> FALSE]

\* AddressCache::get_transaction.
get_transaction(self, id) ==
    IF id \in DOMAIN self.tx_index
    THEN LET address == self.tx_index[id][1]
             idx     == self.tx_index[id][2]
         IN IF address \in DOMAIN self.address_map
               /\ idx < Len(self.address_map[address].transactions)
            THEN Some(self.address_map[address].transactions[idx + 1])
            ELSE None
    ELSE None

\* get_address_history that answers from the persisted record.
get_address_history_from_store(self, script_hash) ==
    IF AddressKey(script_hash) \in DOMAIN self.database
    THEN TryFromAddress(self.database[AddressKey(script_hash)]).val.transactions
    ELSE <<>>

\* AddressCache::get_address_history.
get_address_history(self, script_hash) ==
    IF script_hash \in DOMAIN self.address_map
    THEN self.address_map[script_hash].transactions
    ELSE <<>>

\* AddressCache::get_address_balance.
get_address_balance(self, script_hash) ==
    IF script_hash \in DOMAIN self.address_map
    THEN self.address_map[script_hash].balance
    ELSE U32(0)

\* AddressCache::get_height.
get_height(self, id) ==
    LET tx == get_transaction(self, id) IN
    IF tx # None THEN Some(tx[1].height) ELSE None

\* AddressCache::get_cached_transaction.
get_cached_transaction(self, id) ==
    LET tx == get_transaction(self, id) IN
    IF tx # None THEN Some(tx[1].tx_hex) ELSE None

\* FilterHashes that keeps every hash of the partial merkle tree.
RECURSIVE FilterHashesKeepAll(_, _)
FilterHashesKeepAll(hashes, id) ==
    IF hashes = <<>> THEN <<>>
    ELSE <<Head(hashes)>> \o FilterHashesKeepAll(Tail(hashes), id)

\* The hashes get_merkle_proof keeps: those different from the txid.
RECURSIVE FilterHashes(_, _)
FilterHashes(hashes, id) ==
    IF hashes = <<>> THEN <<>>
    ELSE (IF Head(hashes) # id THEN <<Head(hashes)>> ELSE <<>>)
            \o FilterHashes(Tail(hashes), id)

\* AddressCache::get_merkle_proof.
get_merkle_proof(self, id) ==
    LET tx == get_transaction(self, id) IN
    IF tx # None
    THEN Some([hashes |-> FilterHashes(tx[1].merkle_block[1].hashes, id),
               position |-> tx[1].position])
    ELSE None

\* get_sync_limits that starts the range at the cached height itself.
get_sync_limits_from_height(db, current_hight, overflow_checks) ==
    LET height == get_cache_height(db) IN
    IF ~height.ok THEN [kind |-> "Err", err |-> height.err]
    ELSE [kind |-> "Ok", start |-> height.val, end |-> current_hight]

\* AddressCache::get_sync_limits.  `height + 1` on a u32 overflows for
\* u32::MAX: a build with overflow checks panics, one without wraps.
get_sync_limits(db, current_hight, overflow_checks) ==
    LET height == get_cache_height(db) IN
    IF ~height.ok THEN [kind |-> "Err", err |-> height.err]
    ELSE IF height.val = U32Max /\ overflow_checks THEN [kind |-> "panic"]
    ELSE [kind |-> "Ok", start |-> wrapping_add1(height.val), end |-> current_hight]

\* ------------------------------------------------------------ accumulator
\* Stump::new().
StumpNew == [leafs |-> U32(0), roots |-> <<>>]

\* The accumulators BlockchainSync::update_acc may hand back: it is a
\* function of the block, the proof and the deleted hashes, which are inputs.
AccValues == {StumpNew, [leafs |-> U32(3), roots |-> <<62, 61>>]}

\* Concatenation of two strings: adjacent runs of hex digits become one run.
StrCat(a, b) ==
    IF a # <<>> /\ b # <<>> /\ a[Len(a)].k = "hex" /\ b[1].k = "hex"
    THEN SubSeq(a, 1, Len(a) - 1) \o <<Tok("hex", a[Len(a)].v \o b[1].v)>> \o Tail(b)
    ELSE a \o b

\* The loop of save_acc: every root written as its 64 hex digits.
RECURSIVE WriteRoots(_, _)
WriteRoots(text, roots) ==
    IF roots = <<>> THEN text
    ELSE WriteRoots(StrCat(text, HexStr(<<Head(roots)>>)), Tail(roots))

\* AddressCache::save_acc: "<leafs> " followed by the roots, 64 hex digits each.
AccString(a) == WriteRoots(DecStr(a.leafs) \o <<Space>>, a.roots)

\* The loop of load_acc: 64 hex digits (one 32-byte value) drained at a time.
RECURSIVE DrainRoots(_)
DrainRoots(bytes) ==
    IF Len(bytes) < 1 THEN <<>>
    ELSE <<hash_from_hex(HexStr(<<Head(bytes)>>)).val>> \o DrainRoots(Tail(bytes))

\* load_acc whose roots come out in the reverse order.
RECURSIVE DrainRootsReversed(_)
DrainRootsReversed(bytes) ==
    IF Len(bytes) < 1 THEN <<>>
    ELSE DrainRootsReversed(Tail(bytes)) \o <<hash_from_hex(HexStr(<<Head(bytes)>>)).val>>

load_acc_reversed(roots) ==
    IF roots = None THEN StumpNew
    ELSE LET parts  == Split(roots[1], Space)
             leaves == parse_int(parts[1])
             rest   == IF Len(parts) >= 2 THEN from_hex(parts[2]) ELSE [ok |-> TRUE, val |-> <<>>]
         IN IF leaves.ok /\ rest.ok
            THEN [leafs |-> leaves.val, roots |-> DrainRootsReversed(rest.val)]
            ELSE [panic |-> TRUE]

\* AddressCache::load_acc.
load_acc(roots) ==
    IF roots = None THEN StumpNew
    ELSE LET parts  == Split(roots[1], Space)
             leaves == parse_int(parts[1])
             rest   == IF Len(parts) >= 2 THEN from_hex(parts[2]) ELSE [ok |-> TRUE, val |-> <<>>]
         IN IF leaves.ok /\ rest.ok
            THEN [leafs |-> leaves.val, roots |-> DrainRoots(rest.val)]
            ELSE [panic |-> TRUE]

\* ------------------------------------------------------------------ state
\* Number of cached transaction records over all addresses.
RECURSIVE SumLen(_, _)
SumLen(map, keys) ==
    IF keys = {} THEN 0
    ELSE LET k == CHOOSE x \in keys : TRUE IN
         Len(map[k].transactions) + SumLen(map, keys \ {k})

TotalHist(map) == SumLen(map, DOMAIN map)

\* The last call made on the engine: its name, arguments and return value,
\* and whether it repeats the call before it.
Called(op, args, ret) ==
    [op |-> op, args |-> args, ret |-> ret,
     repeated |-> (call.op = op /\ call.args = args)]

\* The engine constructed on an empty store and an empty chain store.
Init ==
    /\ address_map = EmptyMap
    /\ script_set = {}
    /\ tx_index = EmptyMap
    /\ acc = StumpNew
    /\ database = EmptyMap
    /\ chain_store = None
    /\ alive = TRUE
    /\ call = [op |-> "new", args |-> <<>>, ret |-> <<>>, repeated |-> FALSE]
    /\ writer = None

\* Writes the fields of an engine value back to the state.
Becomes(self) ==
    /\ address_map' = self.address_map
    /\ script_set' = self.script_set
    /\ tx_index' = self.tx_index
    /\ database' = self.database

CacheAddress(script_pk) ==
    /\ alive
    /\ Becomes(cache_address(Self, script_pk))
    /\ call' = Called("cache_address", <<script_pk>>, <<>>)
    /\ UNCHANGED <<acc, chain_store, alive, writer>>

\* A caller of cache_transaction hands over a transaction of some block, its
\* merkle block and position in that block, a height and any output.
CacheTransaction(block, i, height, out) ==
    LET transaction == block.txdata[i]
        merkle_block == from_block_with_predicate(block, txid(transaction))
        next == cache_transaction(Self, transaction, height, out, merkle_block, U32(i - 1))
    IN /\ alive
       /\ TotalHist(next.address_map) <= MaxHist
       /\ Becomes(next)
       /\ call' = Called("cache_transaction",
                         <<transaction, height, out, merkle_block, U32(i - 1)>>, <<>>)
       /\ UNCHANGED <<acc, chain_store, alive, writer>>

\* block_process whose accumulator update succeeds with one of new_accs.
BlockProcess(block, height, new_accs) ==
    LET st == block_process(Self, block, height) IN
    /\ alive
    /\ TotalHist(st.self.address_map) <= MaxHist
    /\ Becomes(st.self)
    /\ call' = Called("block_process", <<block, height>>, st.my_transactions)
    /\ \E new_acc \in new_accs : acc' = new_acc
    /\ UNCHANGED <<chain_store, alive, writer>>

\* block_process whose accumulator update fails: the unwrap panics before
\* any field is assigned.
BlockProcessPanic(block, height) ==
    /\ alive
    /\ alive' = FALSE
    /\ call' = Called("block_process", <<block, height>>, <<>>)
    /\ UNCHANGED <<address_map, script_set, tx_index, acc, database, chain_store, writer>>

SaveAcc ==
    /\ alive
    /\ chain_store' = Some(AccString(acc))
    /\ call' = Called("save_acc", <<>>, <<>>)
    /\ UNCHANGED <<address_map, script_set, tx_index, acc, database, alive, writer>>

BumpHeight(height) ==
    /\ alive
    /\ database' = set_cache_height(database, height)
    /\ call' = Called("bump_height", <<height>>, <<>>)
    /\ UNCHANGED <<address_map, script_set, tx_index, acc, chain_store, alive, writer>>

Setup(descriptor) ==
    /\ alive
    /\ database' = desc_save(set_cache_height(database, U32(0)), descriptor)
    /\ call' = Called("setup", <<descriptor>>, <<>>)
    /\ UNCHANGED <<address_map, script_set, tx_index, acc, chain_store, alive, writer>>

GetSyncLimits(current_hight, overflow_checks) ==
    LET ret == get_sync_limits(database, current_hight, overflow_checks) IN
    /\ alive
    /\ alive' = (ret.kind # "panic")
    /\ call' = Called("get_sync_limits", <<current_hight>>, ret)
    /\ UNCHANGED <<address_map, script_set, tx_index, acc, database, chain_store, writer>>

\* The engine is dropped (or has panicked) and AddressCache::new runs again
\* on the same store and chain store.
Reopen ==
    LET engine == new(database)
        loaded == load_acc(chain_store)
    IN IF engine.ok /\ "panic" \notin DOMAIN loaded
       THEN /\ Becomes(engine.val)
            /\ acc' = loaded
            /\ alive' = TRUE
            /\ call' = Called("new", <<>>, <<>>)
            /\ UNCHANGED <<chain_store, writer>>
       ELSE /\ alive' = FALSE
            /\ call' = Called("new", <<>>, <<>>)
            /\ UNCHANGED <<address_map, script_set, tx_index, acc, database, chain_store, writer>>

Txids == {txid(t) : t \in Transactions}

\* The address operations: watching, caching, block scanning and reopening.
Next ==
    \/ \E script_pk \in Scripts : CacheAddress(script_pk)
    \/ \E block \in Blocks, height \in Heights, out \in Scripts :
         \E i \in 1..Len(block.txdata) : CacheTransaction(block, i, height, out)
    \/ \E block \in Blocks, height \in Heights : BlockProcess(block, height, AccValues)
    \/ Reopen

Spec == Init /\ [][Next]_vars

\* The sync window: setup, bump_height and get_sync_limits between the other
\* operations on one script and one block.
NextSync ==
    \/ \E descriptor \in Descriptors : Setup(descriptor)
    \/ \E height \in BumpHeights : BumpHeight(height)
    \/ \E current_hight \in Tips, overflow_checks \in BOOLEAN :
         GetSyncLimits(current_hight, overflow_checks)
    \/ SaveAcc
    \/ CacheAddress(1)
    \/ \E height \in Heights : CacheTransaction(CHOOSE b \in Blocks : b.header = 1, 1, height, 1)
    \/ BlockProcess(CHOOSE b \in Blocks : b.header = 1, U32(1), AccValues)
    \/ BlockProcessPanic(CHOOSE b \in Blocks : b.header = 1, U32(1))
    \/ Reopen

SpecSync == Init /\ [][NextSync]_vars

TypeOK ==
    /\ \A h \in DOMAIN address_map : address_map[h].script_hash \in Hashes
    /\ script_set \subseteq Scripts
    /\ alive \in BOOLEAN

\* --------------------------------------------------------- write failures
\* KvDatabase::save whose write fails: Bucket::set returns an error (nothing
\* written) or Bucket::flush does (the record is written); either `expect`
\* panics.
save_failing(db, address, written) == IF written THEN save(db, address) ELSE db

\* cache_address up to the panic of save: nothing is inserted yet.
cache_address_failing(self, script_pk, written) ==
    LET hash == get_spk_hash(script_pk)
        new_address == [balance |-> U32(0), script_hash |-> hash,
                        transactions |-> <<>>, script |-> script_pk]
    IN [self EXCEPT !.database = save_failing(self.database, new_address, written)]

\* cache_transaction up to the panic of update (known address: tx_index and
\* the history are already changed) or of save (new address: nothing is
\* inserted yet).
cache_transaction_failing(self, transaction, height, out, merkle_block, position, written) ==
    LET transaction_to_cache == CachedTx(transaction, height, merkle_block, position)
        hash == get_spk_hash(out)
    IN IF hash \in DOMAIN self.address_map
       THEN LET address == self.address_map[hash]
                updated == [address EXCEPT !.transactions = Append(@, transaction_to_cache)]
            IN [self EXCEPT
                  !.tx_index = MapInsert(self.tx_index, transaction_to_cache.hash,
                                         <<address.script_hash, Len(address.transactions)>>),
                  !.address_map = MapInsert(self.address_map, hash, updated),
                  !.database = save_failing(self.database, updated, written)]
       ELSE LET new_address == [balance |-> U32(0), script_hash |-> hash,
                                transactions |-> <<transaction_to_cache>>, script |-> out]
            IN [self EXCEPT !.database = save_failing(self.database, new_address, written)]

\* Whether cache_transaction writes to the store on these arguments.
Writes(self, transaction, height, out, merkle_block, position) ==
    LET hash == get_spk_hash(out) IN
    hash \in DOMAIN self.address_map
        => ~Contains(self.address_map[hash].transactions,
                     CachedTx(transaction, height, merkle_block, position))

\* The loops of block_process when the store fails at the write after
\* `left` successful ones: st.aborted tells that the panic happened.
RECURSIVE ScanOutputsFailing(_, _, _, _, _, _)
ScanOutputsFailing(st, block, height, position, k, written) ==
    LET transaction == block.txdata[position + 1] IN
    IF st.aborted \/ k >= Len(transaction.output) THEN st
    ELSE LET output == transaction.output[k + 1] IN
         IF output \in st.self.script_set
         THEN LET merkle_block == from_block_with_predicate(block, txid(transaction))
                  writes == Writes(st.self, transaction, height, output, merkle_block,
                                   U32(position))
              IN IF writes /\ st.left = 0
                 THEN [st EXCEPT
                         !.self = cache_transaction_failing(st.self, transaction, height,
                                     output, merkle_block, U32(position), written),
                         !.aborted = TRUE]
                 ELSE ScanOutputsFailing(
                         [st EXCEPT
                            !.self = cache_transaction(st.self, transaction, height, output,
                                                       merkle_block, U32(position)),
                            !.left = IF writes THEN @ - 1 ELSE @],
                         block, height, position, k + 1, written)
         ELSE ScanOutputsFailing(st, block, height, position, k + 1, written)

RECURSIVE ScanTxsFailing(_, _, _, _, _)
ScanTxsFailing(st, block, height, position, written) ==
    IF st.aborted \/ position >= Len(block.txdata) THEN st
    ELSE ScanTxsFailing(ScanOutputsFailing(st, block, height, position, 0, written),
                        block, height, position + 1, written)

block_process_failing(self, block, height, left, written) ==
    ScanTxsFailing([self |-> self, left |-> left, aborted |-> FALSE], block, height, 0, written)

CacheAddressFail(script_pk, written) ==
    /\ alive
    /\ Becomes(cache_address_failing(Self, script_pk, written))
    /\ alive' = FALSE
    /\ call' = Called("cache_address", <<script_pk>>, <<>>)
    /\ UNCHANGED <<acc, chain_store, writer>>

CacheTransactionFail(block, i, height, out, written) ==
    LET transaction == block.txdata[i]
        merkle_block == from_block_with_predicate(block, txid(transaction))
    IN /\ alive
       /\ Writes(Self, transaction, height, out, merkle_block, U32(i - 1))
       /\ TotalHist(address_map) < MaxHist
       /\ Becomes(cache_transaction_failing(Self, transaction, height, out, merkle_block,
                                            U32(i - 1), written))
       /\ alive' = FALSE
       /\ call' = Called("cache_transaction",
                         <<transaction, height, out, merkle_block, U32(i - 1)>>, <<>>)
       /\ UNCHANGED <<acc, chain_store, writer>>

\* block_process whose accumulator update succeeded and whose store fails
\* after `left` successful writes.
BlockProcessFail(block, height, new_accs, left, written) ==
    LET st == block_process_failing(Self, block, height, left, written) IN
    /\ alive
    /\ st.aborted
    /\ TotalHist(st.self.address_map) <= MaxHist
    /\ Becomes(st.self)
    /\ alive' = FALSE
    /\ call' = Called("block_process", <<block, height>>, <<>>)
    /\ \E new_acc \in new_accs : acc' = new_acc
    /\ UNCHANGED <<chain_store, writer>>

\* The mutating operations with a store that may fail.
NextFail ==
    \/ \E script_pk \in Scripts : CacheAddress(script_pk)
    \/ \E height \in Heights, out \in Scripts :
         CacheTransaction(CHOOSE b \in Blocks : b.header = 1, 1, height, out)
    \/ \E block \in Blocks : BlockProcess(block, U32(1), {StumpNew})
    \/ Reopen
    \/ \E script_pk \in Scripts, written \in BOOLEAN : CacheAddressFail(script_pk, written)
    \/ \E height \in Heights, out \in Scripts, written \in BOOLEAN :
         CacheTransactionFail(CHOOSE b \in Blocks : b.header = 1, 1, height, out, written)
    \/ \E block \in Blocks, left \in 0..1, written \in BOOLEAN :
         BlockProcessFail(block, U32(1), {StumpNew}, left, written)

SpecFail == Init /\ [][NextFail]_vars

\* ---------------------------------------------------------------- queries
GetAddressHistory(script_hash) ==
    /\ alive
    /\ call' = Called("get_address_history", <<script_hash>>,
                      get_address_history(Self, script_hash))
    /\ UNCHANGED <<address_map, script_set, tx_index, acc, database, chain_store, alive, writer>>

GetAddressBalance(script_hash) ==
    /\ alive
    /\ call' = Called("get_address_balance", <<script_hash>>,
                      get_address_balance(Self, script_hash))
    /\ UNCHANGED <<address_map, script_set, tx_index, acc, database, chain_store, alive, writer>>

GetHeight(id) ==
    /\ alive
    /\ call' = Called("get_height", <<id>>, get_height(Self, id))
    /\ UNCHANGED <<address_map, script_set, tx_index, acc, database, chain_store, alive, writer>>

GetCachedTransaction(id) ==
    /\ alive
    /\ call' = Called("get_cached_transaction", <<id>>, get_cached_transaction(Self, id))
    /\ UNCHANGED <<address_map, script_set, tx_index, acc, database, chain_store, alive, writer>>

GetMerkleProof(id) ==
    /\ alive
    /\ call' = Called("get_merkle_proof", <<id>>, get_merkle_proof(Self, id))
    /\ UNCHANGED <<address_map, script_set, tx_index, acc, database, chain_store, alive, writer>>

\* The queries between watching, block scanning, caching for an unwatched
\* script, bump_height and reopening.
NextQuery ==
    \/ \E script_hash \in Hashes : GetAddressHistory(script_hash)
    \/ \E script_hash \in Hashes : GetAddressBalance(script_hash)
    \/ \E id \in Txids : GetHeight(id)
    \/ \E id \in Txids : GetCachedTransaction(id)
    \/ \E id \in Txids : GetMerkleProof(id)
    \/ \E current_hight \in Tips : GetSyncLimits(current_hight, FALSE)
    \/ CacheAddress(1)
    \/ \E block \in Blocks : BlockProcess(block, U32(1), {StumpNew})
    \/ CacheTransaction(CHOOSE b \in Blocks : b.header = 1, 1, U32(2), 2)
    \/ BumpHeight(U32(1))
    \/ Reopen

SpecQuery == Init /\ [][NextQuery]_vars

\* ------------------------------------------------------------------ codec
\* The cached transactions handed to the codec: the merkle block is an
\* Option, present or absent.
CodecRecords ==
    LET b1 == CHOOSE b \in Blocks : b.header = 1
        b2 == CHOOSE b \in Blocks : b.header = 2
    IN { [tx_hex |-> serialize_tx(T1), height |-> U32(1), position |-> U32(0),
          hash |-> txid(T1), merkle_block |-> m]
            : m \in {None, Some(from_block_with_predicate(b1, txid(T1)))} }
       \cup
       { [tx_hex |-> serialize_tx(T2), height |-> U32(2), position |-> U32(0),
          hash |-> txid(T2), merkle_block |-> m]
            : m \in {None, Some(from_block_with_predicate(b2, txid(T2)))} }

CodecHistories ==
    {<<>>} \cup {<<r>> : r \in CodecRecords}
           \cup {<<r1, r2>> : r1 \in CodecRecords, r2 \in CodecRecords}

\* CachedAddress::_new on valid fields.
CodecAddresses ==
    { [script_hash |-> get_spk_hash(sc), balance |-> bal, transactions |-> txs, script |-> sc]
        : sc \in Scripts, bal \in {U32(0), U32(5)}, txs \in CodecHistories }

\* AddressCacheDatabase::save called with an address.
SaveAddress(address) ==
    /\ database' = save(database, address)
    /\ call' = Called("save", <<address>>, <<>>)
    /\ UNCHANGED <<address_map, script_set, tx_index, acc, chain_store, alive, writer>>

\* AddressCacheDatabase::load.
LoadAddresses ==
    /\ call' = Called("load", <<>>, load(database))
    /\ UNCHANGED <<address_map, script_set, tx_index, acc, database, chain_store, alive, writer>>

\* The record codec through the store: addresses saved and loaded back.
NextCodec ==
    \/ \E address \in CodecAddresses : SaveAddress(address)
    \/ LoadAddresses

SpecCodec == Init /\ [][NextCodec]_vars

\* ------------------------------------------------- stepwise cache_transaction
\* The watched branch of AddressCache::cache_transaction as the three
\* assignments it makes, in the order of the code. `writer` holds the call in
\* flight: the record, the script hash, the assignment made last, and whether
\* the caller holds the exclusive lock for the duration of the call.

\* insert_index that records the position of the last record the history
\* holds already.
insert_index_last(self, hash, transaction_to_cache) ==
    LET address == self.address_map[hash]
        last == IF address.transactions = <<>> THEN 0 ELSE Len(address.transactions) - 1
    IN [self EXCEPT
          !.tx_index = MapInsert(self.tx_index, transaction_to_cache.hash,
                                 <<address.script_hash, last>>)]

\* self.tx_index.insert(txid, (address.script_hash, address.transactions.len())).
insert_index(self, hash, transaction_to_cache) ==
    LET address == self.address_map[hash]
    IN [self EXCEPT
          !.tx_index = MapInsert(self.tx_index, transaction_to_cache.hash,
                                 <<address.script_hash, Len(address.transactions)>>)]

\* address.transactions.push(transaction_to_cache).
push_record(self, hash, transaction_to_cache) ==
    [self EXCEPT !.address_map[hash].transactions = Append(@, transaction_to_cache)]

\* self.database.update(address).
update_store(self, hash) ==
    [self EXCEPT !.database = update(self.database, self.address_map[hash])]

\* The caller's lock around the engine: a query takes the shared lock, which
\* is free unless a mutation in flight holds the exclusive lock.
shared_lock_free == IF writer = None THEN TRUE ELSE ~writer[1].exclusive

\* A mutation starts when no other mutation is in flight.
exclusive_lock_free == writer = None

\* cache_transaction enters the watched branch with a record the history
\* lacks and inserts the tx_index entry.
CacheTransactionIndex(block, i, height, out, exclusive) ==
    LET transaction == block.txdata[i]
        merkle_block == from_block_with_predicate(block, txid(transaction))
        transaction_to_cache == CachedTx(transaction, height, merkle_block, U32(i - 1))
        hash == get_spk_hash(out)
    IN /\ alive
       /\ exclusive_lock_free
       /\ hash \in DOMAIN address_map
       /\ ~Contains(address_map[hash].transactions, transaction_to_cache)
       /\ TotalHist(address_map) < MaxHist
       /\ Becomes(insert_index(Self, hash, transaction_to_cache))
       /\ writer' = Some([record |-> transaction_to_cache, hash |-> hash,
                          step |-> "indexed", exclusive |-> exclusive])
       /\ call' = Called("cache_transaction",
                         <<transaction, height, out, merkle_block, U32(i - 1)>>, <<>>)
       /\ UNCHANGED <<acc, chain_store, alive>>

\* The push that follows the insert.
CacheTransactionPush ==
    /\ writer # None
    /\ writer[1].step = "indexed"
    /\ Becomes(push_record(Self, writer[1].hash, writer[1].record))
    /\ writer' = Some([writer[1] EXCEPT !.step = "pushed"])
    /\ UNCHANGED <<acc, chain_store, alive, call>>

\* The update of the store that ends the call.
CacheTransactionUpdate ==
    /\ writer # None
    /\ writer[1].step = "pushed"
    /\ Becomes(update_store(Self, writer[1].hash))
    /\ writer' = None
    /\ UNCHANGED <<acc, chain_store, alive, call>>

\* A query made by a reader that takes the shared lock.
SharedGetTransactionQueries(id) ==
    /\ shared_lock_free
    /\ \/ GetHeight(id)
       \/ GetCachedTransaction(id)
       \/ GetMerkleProof(id)

\* cache_address made by a writer that takes the exclusive lock.
ExclusiveCacheAddress(script_pk) ==
    /\ exclusive_lock_free
    /\ CacheAddress(script_pk)

\* Watching, caching step by step, and querying between the steps.
NextSteps ==
    \/ \E script_pk \in Scripts : ExclusiveCacheAddress(script_pk)
    \/ \E block \in Blocks, height \in Heights, out \in Scripts, exclusive \in BOOLEAN :
         \E i \in 1..Len(block.txdata) : CacheTransactionIndex(block, i, height, out, exclusive)
    \/ CacheTransactionPush
    \/ CacheTransactionUpdate
    \/ \E id \in Txids : SharedGetTransactionQueries(id)

SpecSteps == Init /\ [][NextSteps]_vars

\* ----------------------------------------------------------------- claims
History(map, hash) == IF hash \in DOMAIN map THEN map[hash].transactions ELSE <<>>

\* The record and the script hash a cache_transaction call is about.
CallRecord == CachedTx(call.args[1], call.args[2], call.args[4], call.args[5])
CallHash == get_spk_hash(call.args[3])

\* C1: every tx_index entry txid -> (script hash, position) names a key of
\* address_map and a valid index of that address's transactions, and the
\* record at that index has that txid.
C1_ReverseIndexIntegrity ==
    \A id \in DOMAIN tx_index :
        LET hash == tx_index[id][1]
            idx  == tx_index[id][2]
        IN /\ hash \in DOMAIN address_map
           /\ idx < Len(address_map[hash].transactions)
           /\ address_map[hash].transactions[idx + 1].hash = id

\* C2: cache_address on a script that is already watched leaves the
\* address_map entry of its hash (history and balance) and the persisted
\* record of that hash as they were.
C2_WatchAgainIsNoOp ==
    [][(call'.op = "cache_address" /\ get_spk_hash(call'.args[1]) \in DOMAIN address_map)
        => LET hash == get_spk_hash(call'.args[1]) IN
           /\ address_map'[hash] = address_map[hash]
           /\ database'[AddressKey(hash)] = database[AddressKey(hash)]]_vars

\* C3: a cache_transaction call that repeats the arguments of the call before
\* it leaves the length of the target address's history unchanged.
C3_CacheTransactionIdempotent ==
    [][(call.op = "cache_transaction" /\ call'.op = "cache_transaction"
            /\ call'.args = call.args)
        => Len(History(address_map', CallHash)) = Len(History(address_map, CallHash))]_vars

\* C3 witness: the second of two identical calls has returned, the first of
\* which auto-subscribed the address (no tx_index entry was written).
C3_Witness ==
    /\ call.op = "cache_transaction"
    /\ call.repeated
    /\ History(address_map, CallHash) = <<CallRecord>>
    /\ CallRecord.hash \notin DOMAIN tx_index

\* C4: cache_transaction for a script hash that is not a key of address_map
\* adds exactly that key and exactly that script, the new address holds the
\* cached transaction alone with balance 0, and the other entries are unchanged.
C4_AutoSubscribe ==
    [][(call'.op = "cache_transaction" /\ get_spk_hash(call'.args[3]) \notin DOMAIN address_map)
        => LET out  == call'.args[3]
               hash == get_spk_hash(out)
           IN /\ DOMAIN address_map' = DOMAIN address_map \cup {hash}
              /\ out \notin script_set
              /\ script_set' = script_set \cup {out}
              /\ address_map'[hash].transactions =
                    << CachedTx(call'.args[1], call'.args[2], call'.args[4], call'.args[5]) >>
              /\ address_map'[hash].balance = U32(0)
              /\ \A other \in DOMAIN address_map : address_map'[other] = address_map[other]]_vars

\* C4 witness: a cache_transaction call has just created the second address
\* of the engine, next to one that has a history of its own.
C4_Witness ==
    /\ call.op = "cache_transaction"
    /\ ~call.repeated
    /\ History(address_map, CallHash) = <<CallRecord>>
    /\ CallRecord.hash \notin DOMAIN tx_index
    /\ \E other \in DOMAIN address_map :
          other # CallHash /\ Len(address_map[other].transactions) = 1

\* C5: the store holds, for every key of address_map, a record that decodes
\* to exactly the in-memory address, and no address record besides those.
C5_WriteThrough ==
    /\ \A hash \in DOMAIN address_map :
          /\ AddressKey(hash) \in DOMAIN database
          /\ TryFromAddress(database[AddressKey(hash)]) = [ok |-> TRUE, val |-> address_map[hash]]
    /\ \A key \in DOMAIN database \ {HeightKey, DescKey} :
          \E hash \in DOMAIN address_map : key = AddressKey(hash)

\* C5 witness: two addresses, one with two cached transactions, after a
\* mutating call.
C5_Witness ==
    /\ call.op \in {"cache_transaction", "block_process"}
    /\ Cardinality(DOMAIN address_map) = 2
    /\ \E hash \in DOMAIN address_map : Len(address_map[hash].transactions) = 2

\* C6: re-running AddressCache::new on the store yields the address_map and
\* the script_set the engine held.
C6_PersistReopen ==
    [][(call'.op = "new" /\ alive /\ alive')
        => (address_map' = address_map /\ script_set' = script_set)]_vars

\* C6 witness: an engine reopened on a store that holds a history of two
\* transactions.
C6_Witness ==
    /\ call.op = "new"
    /\ alive
    /\ \E hash \in DOMAIN address_map : Len(address_map[hash].transactions) = 2

\* C7: after block_process(block, h), every transaction of the block with an
\* output whose script was in script_set has a record with height h and its
\* block index in that address's history, get_height gives h and
\* get_merkle_proof gives that position.
C7_BlockScanQueryable ==
    [][(call'.op = "block_process" /\ alive')
        => LET block == call'.args[1]
               h     == call'.args[2]
           IN \A i \in 1..Len(block.txdata) :
                LET transaction == block.txdata[i]
                    id == txid(transaction)
                IN (\E k \in 1..Len(transaction.output) : transaction.output[k] \in script_set)
                   => /\ \A k \in 1..Len(transaction.output) :
                            transaction.output[k] \in script_set
                            => \E r \in 1..Len(History(address_map', get_spk_hash(transaction.output[k]))) :
                                 LET rec == History(address_map', get_spk_hash(transaction.output[k]))[r]
                                 IN rec.hash = id /\ rec.height = h /\ rec.position = U32(i - 1)
                      /\ get_height(Self', id) = Some(h)
                      /\ get_merkle_proof(Self', id) # None
                      /\ get_merkle_proof(Self', id)[1].position = U32(i - 1)]_vars

\* The (transaction, output) pairs of the block whose output script is
\* watched, in block order then output order.
RECURSIVE MatchedOutputs(_, _, _)
MatchedOutputs(transaction, watched, k) ==
    IF k > Len(transaction.output) THEN <<>>
    ELSE (IF transaction.output[k] \in watched
          THEN << <<transaction, transaction.output[k]>> >> ELSE <<>>)
            \o MatchedOutputs(transaction, watched, k + 1)

RECURSIVE MatchedPairs(_, _, _)
MatchedPairs(block, watched, i) ==
    IF i > Len(block.txdata) THEN <<>>
    ELSE MatchedOutputs(block.txdata[i], watched, 1) \o MatchedPairs(block, watched, i + 1)

\* C8: block_process returns one pair per output of the block whose script is
\* in script_set, in block order then output order, and no other pair.
C8_ReturnsMatchedPairs ==
    [][(call'.op = "block_process" /\ alive')
        => call'.ret = MatchedPairs(call'.args[1], script_set, 1)]_vars

\* C8 witness: a block with matching outputs in two transactions is
\* processed a second time at the same height, so that every record is
\* already present, and its pairs come back.
C8_Witness ==
    /\ call.op = "block_process"
    /\ alive
    /\ call.repeated
    /\ Len(call.ret) >= 3
    /\ \E i \in 1..Len(call.ret) : call.ret[i][1] # call.ret[1][1]

\* The persisted cache height, when there is one.
PersistedIn(db, height) == HeightKey \in DOMAIN db /\ db[HeightKey] = DecStr(height)
Persisted(height) == PersistedIn(database, height)

\* H + 1 as a number, for H below u32::MAX.
Plus1(height) ==
    IF height[2] < 65535 THEN <<height[1], height[2] + 1>> ELSE <<height[1] + 1, 0>>

\* C9: with a cache height H below u32::MAX persisted, get_sync_limits(C)
\* is Ok with the range H+1..=C, which is empty when C < H+1; with no cache
\* height persisted it is Err(WalletNotInitialized).
C9_SyncWindow ==
    call.op = "get_sync_limits"
    => /\ \A height \in {U32(0)} \cup BumpHeights :
             (Persisted(height) /\ height # U32Max)
             => /\ call.ret = [kind |-> "Ok", start |-> Plus1(height), end |-> call.args[1]]
                /\ ~u32_le(Plus1(height), call.args[1]) => ~u32_le(call.ret.start, call.ret.end)
       /\ HeightKey \notin DOMAIN database
             => call.ret = [kind |-> "Err", err |-> "WalletNotInitialized"]

\* C9 witness: get_sync_limits returned an empty range for a tip below the
\* height bump_height persisted.
C9_Witness ==
    /\ call.op = "get_sync_limits"
    /\ Persisted(U32(1))
    /\ call.ret.kind = "Ok"
    /\ ~u32_le(call.ret.start, call.ret.end)

\* C10: only setup (to 0) and bump_height (to its argument) change the
\* persisted cache height, and get_sync_limits starts at one more than it.
C10_HeightFrame ==
    [][/\ call'.op = "setup" => PersistedIn(database', U32(0))
       /\ call'.op = "bump_height" => PersistedIn(database', call'.args[1])
       /\ call'.op \notin {"setup", "bump_height"}
            => /\ (HeightKey \in DOMAIN database') = (HeightKey \in DOMAIN database)
               /\ HeightKey \in DOMAIN database => database'[HeightKey] = database[HeightKey]
       /\ (call'.op = "get_sync_limits" /\ HeightKey \in DOMAIN database)
            => /\ call'.ret.kind = "Ok"
               /\ \A height \in {U32(0)} \cup BumpHeights :
                     Persisted(height) => call'.ret.start = Plus1(height)]_vars

\* C11: what save_acc writes loads back as the same accumulator (leaf count
\* and roots in order), and AddressCache::new on the chain store yields the
\* accumulator last saved, or Stump::new() when none was saved.
C11_AccRoundTrip ==
    [][/\ call'.op = "save_acc" => load_acc(chain_store') = acc
       /\ (call'.op = "new" /\ alive')
            => \/ chain_store = None /\ acc' = StumpNew
               \/ \E a \in AccValues : chain_store = Some(AccString(a)) /\ acc' = a]_vars

\* C11 witness: an engine reopened on a snapshot of two roots.
C11_Witness ==
    /\ call.op = "new"
    /\ alive
    /\ chain_store # None
    /\ acc.leafs = U32(3)
    /\ acc.roots = <<62, 61>>

\* C12: the text save persists for an address decodes to an address equal to
\* it field by field, whether the merkle block of a transaction is present
\* or absent.
C12_AddressRoundTrip ==
    call.op = "save"
    => TryFromAddress(database[AddressKey(call.args[1].script_hash)])
          = [ok |-> TRUE, val |-> call.args[1]]

\* C13: the hashes get_merkle_proof returns for a txid never include that
\* txid, and the position it returns is the one stored in the cached
\* transaction record the reverse index gives for the txid.
C13_ProofExclusion ==
    (call.op = "get_merkle_proof" /\ call.ret # None)
    => LET id == call.args[1] IN
       /\ \A i \in 1..Len(call.ret[1].hashes) : call.ret[1].hashes[i] # id
       /\ id \in DOMAIN tx_index
       /\ call.ret[1].position =
             address_map[tx_index[id][1]].transactions[tx_index[id][2] + 1].position

\* C13 witness: a proof came back for the second transaction of a block of
\* two, with the sibling hash and without the txid itself.
C13_Witness ==
    /\ call.op = "get_merkle_proof"
    /\ call.ret # None
    /\ call.ret[1].position = U32(1)
    /\ Len(call.ret[1].hashes) = 1
    /\ Len(get_transaction(Self, call.args[1])[1].merkle_block[1].hashes) = 2

QueryOps ==
    {"get_address_history", "get_address_balance", "get_height",
     "get_cached_transaction", "get_merkle_proof", "get_sync_limits"}

\* What a query returns on an engine value.
QueryOn(op, args, self) ==
    CASE op = "get_address_history" -> get_address_history(self, args[1])
      [] op = "get_address_balance" -> get_address_balance(self, args[1])
      [] op = "get_height" -> get_height(self, args[1])
      [] op = "get_cached_transaction" -> get_cached_transaction(self, args[1])
      [] op = "get_merkle_proof" -> get_merkle_proof(self, args[1])
      [] op = "get_sync_limits" -> get_sync_limits(self.database, args[1], FALSE)

\* The engine with nothing in its store.
WithoutStore == [Self EXCEPT !.database = EmptyMap]

QueryFrame ==
    UNCHANGED <<address_map, script_set, tx_index, acc, database, chain_store, writer>>

\* C14 (as stated): every query leaves the indices, the accumulator and the
\* store unchanged, and none of them accesses the store: its answer is the
\* one it gives on the same in-memory state with an empty store.
C14_QueriesInMemory ==
    [][call'.op \in QueryOps
        => /\ QueryFrame
           /\ call'.ret = QueryOn(call'.op, call'.args, WithoutStore)]_vars

\* C14 (amended): every query leaves the indices, the accumulator and the
\* store unchanged; all but get_sync_limits answer from the in-memory state
\* alone, and get_sync_limits answers from the cache height in the store.
C14_QueriesReadOnly ==
    [][call'.op \in QueryOps
        => /\ QueryFrame
           /\ call'.op # "get_sync_limits"
                => call'.ret = QueryOn(call'.op, call'.args, WithoutStore)
           /\ call'.op = "get_sync_limits"
                => call'.ret = QueryOn(call'.op, call'.args,
                                       [database |-> IF HeightKey \in DOMAIN database
                                                     THEN (HeightKey :> database[HeightKey])
                                                     ELSE EmptyMap])]_vars

\* C14 witness: get_height answered for a cached transaction while the store
\* holds address records and a cache height.
C14_Witness ==
    /\ call.op = "get_height"
    /\ call.ret # None
    /\ HeightKey \in DOMAIN database
    /\ Cardinality(DOMAIN address_map) = 2

\* C15: script_set is the set of the scripts of the address_map entries, and
\* every key of address_map is the script hash of its entry's script (and
\* the entry's own script_hash field).
C15_ScriptSetMirrors ==
    /\ script_set = {address_map[hash].script : hash \in DOMAIN address_map}
    /\ \A hash \in DOMAIN address_map :
          /\ hash = get_spk_hash(address_map[hash].script)
          /\ hash = address_map[hash].script_hash

\* C15 witness: one address watched by cache_address and one followed by
\* cache_transaction, in an engine that has just been reopened.
C15_Witness ==
    /\ call.op = "new"
    /\ script_set = Scripts
    /\ \E hash \in DOMAIN address_map : address_map[hash].transactions = <<>>
    /\ \E hash \in DOMAIN address_map : Len(address_map[hash].transactions) = 2

\* Number of records of a history with the given txid.
RECURSIVE CountTxid(_, _)
CountTxid(transactions, id) ==
    IF transactions = <<>> THEN 0
    ELSE (IF Head(transactions).hash = id THEN 1 ELSE 0) + CountTxid(Tail(transactions), id)

NoEqualRecords(map) ==
    \A hash \in DOMAIN map :
        \A i, j \in 1..Len(map[hash].transactions) :
            i # j => map[hash].transactions[i] # map[hash].transactions[j]

\* C16: no history ever holds two records equal in all fields, and one
\* block_process call adds at most one record of a transaction to an address,
\* however many outputs pay it and whether or not the block was seen before.
C16_NoDuplicateHistory ==
    [][/\ NoEqualRecords(address_map')
       /\ (call'.op = "block_process" /\ alive')
            => \A i \in 1..Len(call'.args[1].txdata), hash \in DOMAIN address_map' :
                  CountTxid(History(address_map', hash), txid(call'.args[1].txdata[i]))
                     <= CountTxid(History(address_map, hash), txid(call'.args[1].txdata[i])) + 1]_vars

\* C16 witness: a block whose transaction pays the watched script with two
\* outputs has been processed twice at the same height and the address
\* holds one record.
C16_Witness ==
    /\ call.op = "block_process"
    /\ alive
    /\ call.repeated
    /\ Len(call.ret) = 2
    /\ call.ret[1] = call.ret[2]
    /\ Len(History(address_map, get_spk_hash(call.ret[1][2]))) = 1

\* The changes a step made to address_map, script_set and tx_index are all
\* in the store after the step.
ChangesPersisted ==
    /\ \A hash \in DOMAIN address_map' :
          (hash \notin DOMAIN address_map \/ address_map'[hash] # address_map[hash])
          => /\ AddressKey(hash) \in DOMAIN database'
             /\ TryFromAddress(database'[AddressKey(hash)])
                   = [ok |-> TRUE, val |-> address_map'[hash]]
    /\ \A script \in script_set' \ script_set :
          AddressKey(get_spk_hash(script)) \in DOMAIN database'
    /\ \A id \in DOMAIN tx_index' :
          (id \notin DOMAIN tx_index \/ tx_index'[id] # tx_index[id])
          => /\ AddressKey(tx_index'[id][1]) \in DOMAIN database'
             /\ LET stored == TryFromAddress(database'[AddressKey(tx_index'[id][1])]) IN
                /\ stored.ok
                /\ tx_index'[id][2] < Len(stored.val.transactions)
                /\ stored.val.transactions[tx_index'[id][2] + 1].hash = id

\* C17: when the store fails during cache_address, cache_transaction or
\* block_process, the call panics and address_map, script_set and tx_index
\* hold no change that is not in the store as well.
C17_NoPartialState ==
    [][(alive /\ ~alive' /\ call'.op \in {"cache_address", "cache_transaction", "block_process"})
        => ChangesPersisted]_vars

\* The call of cache_transaction in flight, if any.
InFlight == writer # None

\* The tx_index entry of id designates no record: its position is not a
\* valid index of the history of its address.
Dangling(id) ==
    /\ id \in DOMAIN tx_index
    /\ ~(tx_index[id][2] < Len(History(address_map, tx_index[id][1])))

\* C18: cache_transaction on a watched address changes tx_index, then the
\* history, then the store: after the first step the new tx_index entry has
\* the history's length as its position, which is no valid index yet, and
\* after the second the store lacks the pushed record; a query sees such a
\* state only when the call in flight does not hold the exclusive lock.
C18_StepsAndLock ==
    /\ (InFlight /\ writer[1].step = "indexed") =>
          /\ tx_index[writer[1].record.hash] =
                <<writer[1].hash, Len(address_map[writer[1].hash].transactions)>>
          /\ Dangling(writer[1].record.hash)
          /\ get_transaction(Self, writer[1].record.hash) = None
    /\ (InFlight /\ writer[1].step = "pushed") =>
          /\ get_transaction(Self, writer[1].record.hash) = Some(writer[1].record)
          /\ TryFromAddress(database[AddressKey(writer[1].hash)]) #
                [ok |-> TRUE, val |-> address_map[writer[1].hash]]
    /\ (InFlight /\ call.op \in QueryOps) => ~writer[1].exclusive

\* C18 witness: get_height asked between the insert and the push, for the
\* transaction being cached, finds its tx_index entry and no record.
C18_Witness ==
    /\ InFlight
    /\ writer[1].step = "indexed"
    /\ ~writer[1].exclusive
    /\ call.op = "get_height"
    /\ call.args[1] = writer[1].record.hash
    /\ Dangling(call.args[1])
    /\ call.ret = None

\* C19: the txid of every record of every history is a key of tx_index, so
\* that get_height, get_cached_transaction and get_merkle_proof answer for
\* it, and tx_index is the index AddressCache::new rebuilds from the store.
C19_ReverseIndexComplete ==
    /\ \A hash \in DOMAIN address_map :
          \A i \in 1..Len(address_map[hash].transactions) :
             LET id == address_map[hash].transactions[i].hash IN
             /\ id \in DOMAIN tx_index
             /\ get_height(Self, id) # None
             /\ get_cached_transaction(Self, id) # None
             /\ get_merkle_proof(Self, id) # None
    /\ tx_index = new(database).val.tx_index

\* C20: no history holds two records with the same txid, also when the
\* transaction is cached again at another height or position.
C20_OneRecordPerTxid ==
    \A hash \in DOMAIN address_map :
        \A i, j \in 1..Len(address_map[hash].transactions) :
            i # j => address_map[hash].transactions[i].hash # address_map[hash].transactions[j].hash

\* x < y on u32.
u32_lt(x, y) == u32_le(x, y) /\ x # y

\* C21: for every persisted cache height H, u32::MAX written by bump_height
\* included, get_sync_limits does not abort and returns a range that starts
\* above H: H + 1 is computed without wrapping modulo 2^32.
C21_NoOverflow ==
    (call.op = "get_sync_limits" /\ HeightKey \in DOMAIN database)
    => /\ alive
       /\ call.ret.kind = "Ok"
       /\ \A height \in {U32(0)} \cup BumpHeights :
             Persisted(height) => u32_lt(height, call.ret.start)
====
